---- MODULE Spec2Model ----
(***************************************************************************)
(* Model of the scheduling engine of src/RoundRobinScheduler.tsx:          *)
(* roundRobin(procs, q) and fcfsScheduler(procs), called one after the     *)
(* other on the same process list, as RRvsFCFSView does (lines 329-331),   *)
(* roundRobin alone, as `run` calls it (line 280), and AnalyzeView's sweep *)
(* of roundRobin over a range of quanta (lines 369-387, 424-433); and of   *)
(* the handlers that edit the process table (lines 285-296, 673, 684).     *)
(* One RRSlice step is one iteration of roundRobin's while loop, one       *)
(* FCFSEach step is one iteration of fcfsScheduler's forEach.              *)
(*                                                                         *)
(* Arrays are 1-based here and 0-based in the source: index k of the model *)
(* is index k-1 of the source.  Times, bursts and the quantum are integers *)
(* (the form parses them with parseInt).  A quotient a / n is kept as the  *)
(* pair [num |-> a, den |-> n]; den = 0 is JavaScript's 0 / 0, NaN.        *)
(* A local `const x = e` of the source is bound as \E x \in { e }.          *)
(***************************************************************************)
EXTENDS Integers, Sequences, FiniteSets, TLC

\* Bounds of the inputs drawn by Init.
MaxProcs == 2
MaxArrival == 3
MaxBurst == 3
MaxQuantum == 3

\* Cap on the timeline of a run whose quantum is below 1 (such a run never
\* leaves the while loop); runs with quantum >= 1 are never capped.
MaxSegments == MaxProcs * MaxBurst + 2

\* `P${id}` (lines 64, 115): the letter P followed by the id.
Pid(id) == <<"P", id>>

Proc(id, at, bt) == [id |-> id, at |-> at, bt |-> bt]

DEFAULT_PROCESSES ==
  << Proc(1, 0, 5), Proc(2, 1, 3), Proc(3, 2, 8), Proc(4, 3, 6) >>

\* The Presets component's fixed lists (lines 176-180).
PRESET_SMALL_MIX ==
  << Proc(1, 0, 3), Proc(2, 1, 5), Proc(3, 2, 2), Proc(4, 3, 4) >>
PRESET_CPU_BOUND ==
  << Proc(1, 0, 9), Proc(2, 1, 7), Proc(3, 2, 8), Proc(4, 4, 10) >>
PRESET_IO_BOUND ==
  << Proc(1, 0, 2), Proc(2, 1, 1), Proc(3, 2, 3), Proc(4, 3, 2), Proc(5, 5, 1) >>

\* useLocalState('rr-q', 4), 'rr-cq1', 'rr-cq2' (lines 249, 254, 255).
DEFAULT_QUANTUM == 4
DEFAULT_COMPARE_Q1 == 2
DEFAULT_COMPARE_Q2 == 6

\* The lists and quanta the form offers without any typing.
FormLists == { DEFAULT_PROCESSES, PRESET_SMALL_MIX, PRESET_CPU_BOUND, PRESET_IO_BOUND }
FormQuanta == { DEFAULT_QUANTUM, DEFAULT_COMPARE_Q1, DEFAULT_COMPARE_Q2 }

NoResult == [none |-> TRUE]

Min(a, b) == IF a < b THEN a ELSE b
Max(a, b) == IF a > b THEN a ELSE b

\* s.reduce((a, x) => a + x, 0)
RECURSIVE SumTo(_, _)
SumTo(s, k) == IF k = 0 THEN 0 ELSE SumTo(s, k - 1) + s[k]
SumSeq(s) == SumTo(s, Len(s))

\* The elements of a finite set of integers, ascending.
Ascending(S) ==
  [k \in 1..Cardinality(S) |->
     CHOOSE x \in S : Cardinality({ y \in S : y < x }) = k - 1]

\* Mutant of SortByAt: the list is taken in input order.
NoSort(ps) == ps

\* Array.prototype.sort with comparator (a, b) => a.at - b.at (lines 41, 109).
\* The sort is stable: element i lands behind every element with a smaller
\* arrival time and every earlier element with the same arrival time.
RankByAt(ps, i) ==
  1 + Cardinality({ j \in 1..Len(ps) :
                      \/ ps[j].at < ps[i].at
                      \/ ps[j].at = ps[i].at /\ j < i })
SortByAt(ps) ==
  [k \in 1..Len(ps) |-> ps[CHOOSE i \in 1..Len(ps) : RankByAt(ps, i) = k]]

\* .sort((a, b) => a.id - b.id) (lines 95, 125), stable as well.
RankById(ps, i) ==
  1 + Cardinality({ j \in 1..Len(ps) :
                      \/ ps[j].id < ps[i].id
                      \/ ps[j].id = ps[i].id /\ j < i })
SortById(ps) ==
  [k \in 1..Len(ps) |-> ps[CHOOSE i \in 1..Len(ps) : RankById(ps, i) = k]]

\* useState<[number, number] | null>(null) (line 361): no Q Range filter.
NoRange == <<>>

VARIABLES
  processes,      \* the caller's process list (procs)
  quantum,        \* q, the quantum of the roundRobin call
  caller,         \* who calls: "compare" (RRvsFCFSView), "run", "analyze" (AnalyzeView)
  pc,             \* position of the caller: rr_call, rr_loop, fcfs_call, fcfs_each,
                  \* done; sweep, sweep_point, analyzed in AnalyzeView
  sorted,         \* roundRobin: sorted copy of procs
  remaining,
  completion,
  firstResponse,
  time,
  queue,
  visited,
  gantt,
  rr,             \* what roundRobin returned, NoResult before it returns
  fsorted,        \* fcfsScheduler: sorted copy of procs
  fidx,           \* fcfsScheduler: index of the next forEach element
  ftime,
  fgantt,
  fcfs,           \* what fcfsScheduler returned, NoResult before it returns
  points,         \* AnalyzeView: the sweep points computed so far
  analysis,       \* AnalyzeView: minAwtPoint, median, adaptiveQ; NoResult before
  qRange,         \* AnalyzeView: the Q Range filter, NoRange for null
  prev,           \* what the calls before the current ones returned and passed
                  \* through, NoResult during the first calls
  trace           \* history: the queue and clock the current calls passed through

vars == << processes, quantum, caller, pc, sorted, remaining, completion,
           firstResponse, time, queue, visited, gantt, rr, fsorted, fidx, ftime,
           fgantt, fcfs, points, analysis, qRange, prev, trace >>

rrVars == << sorted, remaining, completion, firstResponse, time, queue, visited,
             gantt, rr >>
fcfsVars == << fsorted, fidx, ftime, fgantt, fcfs >>
analyzeVars == << points, analysis, qRange >>

\* One entry of the history: the ready queue and the clock at a loop head.
Snap(qu, t) == [queue |-> qu, time |-> t]

----------------------------------------------------------------------------
\* roundRobin, lines 40-106

\* Mutant of CallerList: procs.sort(...) without the copy sorts the caller's
\* array in place.
SortedInPlace(ps, srt) == srt

\* [...procs].sort(...) (lines 41, 109): the copy is sorted into srt and the
\* caller's array stays as it is.
CallerList(ps, srt) == ps

\* Mutant of StartTime: the clock starts at 0 whatever the first arrival is.
StartAtZero(srt) == 0

\* Mutant of StartTime: the clock is not local to the call, it starts where
\* the call before left it.
StartWhereClockStood(srt) == time

\* let time = sorted[0]?.at ?? 0 (line 46)
StartTime(srt) == IF Len(srt) > 0 THEN srt[1].at ELSE 0

\* The first scan (lines 51-56): every process that has arrived by `t`.
InitialArrivals(srt, t, vis) ==
  Ascending({ j \in 1..Len(srt) : srt[j].at <= t /\ ~vis[j] })

\* Mutant of FirstResponse: every dispatch records its own response time.
ResponseAtEveryDispatch(fr, t, at) == t - at

\* if (firstResponse[i] === -1) firstResponse[i] = time - sorted[i].at
\* (line 60)
FirstResponse(fr, t, at) == IF fr = -1 THEN t - at ELSE fr

\* Mutant of RunTime: every slice lasts a full quantum.
RunTimeFullQuantum(rem, q) == q

\* Math.min(remaining[i], q) (line 61)
RunTime(rem, q) == Min(rem, q)

\* Mutant of NewArrivals: the visited flag is not consulted.
NewArrivalsIgnoringVisited(srt, t, vis, rem) ==
  Ascending({ j \in 1..Len(srt) : srt[j].at <= t /\ rem[j] > 0 })

\* The scan after a slice (lines 68-73): arrived, never queued, unfinished.
NewArrivals(srt, t, vis, rem) ==
  Ascending({ j \in 1..Len(srt) : srt[j].at <= t /\ ~vis[j] /\ rem[j] > 0 })

\* Mutant of EnqueueAfterSlice: the process that ran is re-queued before the
\* new arrivals.
RequeueBeforeArrivals(q, new, i, remI) ==
  IF remI > 0 THEN (q \o <<i>>) \o new ELSE q \o new

\* Lines 68-75 on the queue: the new arrivals are pushed, then the process
\* that just ran if it has work left.
EnqueueAfterSlice(q, new, i, remI) ==
  IF remI > 0 THEN (q \o new) \o <<i>> ELSE q \o new

\* Mutant of GapFillIndex: no process is fetched when the queue runs empty.
NoGapFill(rem, vis) == 0

\* Mutant of GapFillIndex: the last such process rather than the first.
GapFillLast(rem, vis) ==
  LET S == { k \in 1..Len(rem) : rem[k] > 0 /\ ~vis[k] }
  IN  IF S = {} THEN 0 ELSE CHOOSE k \in S : \A m \in S : k >= m

\* Lines 78-85: the first unfinished process never queued, 0 when there is none.
GapFillIndex(rem, vis) ==
  LET S == { k \in 1..Len(rem) : rem[k] > 0 /\ ~vis[k] }
  IN  IF S = {} THEN 0 ELSE CHOOSE k \in S : \A m \in S : k <= m

\* Mutant of Turnaround: the completion time itself, the arrival not taken off.
TurnaroundFromZero(c, at) == c

\* completion.map((c, i) => c - sorted[i].at) (line 89)
Turnaround(c, at) == c - at

\* Mutant of Waiting: the turnaround time itself, the burst not taken off.
WaitingIsTurnaround(t, bt) == t

\* tat.map((t, i) => t - sorted[i].bt) (line 90)
Waiting(t, bt) == t - bt

\* Mutant of ContextSwitches: every boundary between two segments counts.
CountEveryBoundary(g) == IF Len(g) > 0 THEN Len(g) - 1 ELSE 0

\* gantt.reduce(... gantt[idx].pid !== gantt[idx - 1].pid ...) (lines 97, 126)
ContextSwitches(g) ==
  Cardinality({ idx \in 2..Len(g) : g[idx].pid # g[idx - 1].pid })

\* x.reduce((a, b) => a + b, 0) / n (lines 98-99, 127-128)
Avg(xs, n) == [num |-> SumSeq(xs), den |-> n]

\* Mutant of TotalTime: the span of the timeline, from its first start.
TotalTimeFromFirstStart(g) == IF Len(g) > 0 THEN g[Len(g)].end - g[1].start ELSE 0

\* gantt[gantt.length - 1]?.end || 0 (lines 101, 130)
TotalTime(g) == IF Len(g) > 0 THEN g[Len(g)].end ELSE 0

\* Lines 41-56.
RRSetup ==
  /\ pc = "rr_call"
  /\ \E srt \in { SortByAt(processes) } :
     \E t \in { StartTime(srt) } :
     \E arr \in { InitialArrivals(srt, t, [j \in 1..Len(srt) |-> FALSE]) } :
       /\ sorted' = srt
       /\ remaining' = [j \in 1..Len(srt) |-> srt[j].bt]
       /\ completion' = [j \in 1..Len(srt) |-> 0]
       /\ firstResponse' = [j \in 1..Len(srt) |-> -1]
       /\ time' = t
       /\ queue' = arr
       /\ visited' = [j \in 1..Len(srt) |-> \E m \in 1..Len(arr) : arr[m] = j]
       /\ gantt' = <<>>
       /\ trace' = << Snap(arr, t) >>
       /\ processes' = CallerList(processes, srt)
  /\ pc' = "rr_loop"
  /\ UNCHANGED << quantum, caller, rr, fcfsVars, analyzeVars, prev >>

\* One iteration of the while loop, lines 58-87.
RRSlice ==
  /\ pc = "rr_loop"
  /\ queue # <<>>
  /\ (quantum < 1) => (Len(gantt) < MaxSegments)
  /\ \E i \in { Head(queue) } :
     \E runTime \in { RunTime(remaining[i], quantum) } :
     \E start \in { time } :
     \E end \in { time + runTime } :
     \E rem1 \in { [remaining EXCEPT ![i] = @ - runTime] } :
     \E new \in { NewArrivals(sorted, end, visited, rem1) } :
     \E vis1 \in { [j \in 1..Len(sorted) |->
                     visited[j] \/ \E m \in 1..Len(new) : new[m] = j] } :
     \E q1 \in { EnqueueAfterSlice(Tail(queue), new, i, rem1[i]) } :
     \E k \in { IF q1 = <<>> THEN GapFillIndex(rem1, vis1) ELSE 0 } :
     \E t1 \in { IF k # 0 THEN Max(end, sorted[k].at) ELSE end } :
     \E q2 \in { IF k # 0 THEN <<k>> ELSE q1 } :
       /\ firstResponse' =
            [firstResponse EXCEPT ![i] = FirstResponse(@, time, sorted[i].at)]
       /\ gantt' = Append(gantt, [pid |-> Pid(sorted[i].id), start |-> start, end |-> end])
       /\ remaining' = rem1
       /\ completion' =
            IF rem1[i] > 0 THEN completion ELSE [completion EXCEPT ![i] = end]
       /\ time' = t1
       /\ queue' = q2
       /\ visited' = IF k # 0 THEN [vis1 EXCEPT ![k] = TRUE] ELSE vis1
       /\ trace' = Append(trace, Snap(q2, t1))
  /\ UNCHANGED << processes, quantum, caller, pc, sorted, rr, fcfsVars,
                  analyzeVars, prev >>

\* Where roundRobin's result goes: to the sweep's map callback (line 374),
\* to `run` (line 281), or to RRvsFCFSView, which calls fcfsScheduler next
\* (lines 330-331).
AfterRoundRobin(c) ==
  IF c = "analyze" THEN "sweep_point"
  ELSE IF c = "run" THEN "done"
  ELSE "fcfs_call"

\* Lines 89-105, once the queue is empty.
RRReturn ==
  /\ pc = "rr_loop"
  /\ queue = <<>>
  /\ \E n \in { Len(sorted) } :
     \E tat \in { [j \in 1..n |-> Turnaround(completion[j], sorted[j].at)] } :
     \E wt \in { [j \in 1..n |-> Waiting(tat[j], sorted[j].bt)] } :
     \E data \in { [j \in 1..n |->
                     [id |-> sorted[j].id, at |-> sorted[j].at, bt |-> sorted[j].bt,
                      ct |-> completion[j], tat |-> tat[j], wt |-> wt[j],
                      rt |-> firstResponse[j]]] } :
       rr' = [ resultData |-> SortById(data),
               gantt |-> gantt,
               cs |-> ContextSwitches(gantt),
               avgTat |-> Avg(tat, n),
               avgWt |-> Avg(wt, n),
               totalBurst |-> SumSeq([j \in 1..n |-> sorted[j].bt]),
               totalTime |-> TotalTime(gantt) ]
  /\ pc' = AfterRoundRobin(caller)
  /\ UNCHANGED << processes, quantum, caller, sorted, remaining, completion,
                  firstResponse, time, queue, visited, gantt, fcfsVars,
                  analyzeVars, prev, trace >>

----------------------------------------------------------------------------
\* fcfsScheduler, lines 108-134

\* Mutant of FcfsStart: a process starts at its arrival, busy CPU or not.
FcfsStartAtArrival(t, at) == at

\* if (time < p.at) time = p.at (line 114)
FcfsStart(t, at) == IF t < at THEN at ELSE t

\* Lines 109-112.
FCFSSetup ==
  /\ pc = "fcfs_call"
  /\ \E srt \in { SortByAt(processes) } :
       /\ fsorted' = srt
       /\ processes' = CallerList(processes, srt)
  /\ fgantt' = <<>>
  /\ ftime' = 0
  /\ fidx' = 1
  /\ trace' = Append(trace, Snap(<<>>, 0))
  /\ pc' = "fcfs_each"
  /\ UNCHANGED << quantum, caller, rrVars, fcfs, analyzeVars, prev >>

\* One call of the forEach callback, lines 113-117.
FCFSEach ==
  /\ pc = "fcfs_each"
  /\ fidx <= Len(fsorted)
  /\ \E p \in { fsorted[fidx] } :
     \E s \in { FcfsStart(ftime, p.at) } :
       /\ fgantt' = Append(fgantt, [pid |-> Pid(p.id), start |-> s, end |-> s + p.bt])
       /\ ftime' = s + p.bt
       /\ trace' = Append(trace, Snap(<<>>, s + p.bt))
  /\ fidx' = fidx + 1
  /\ UNCHANGED << processes, quantum, caller, pc, rrVars, fsorted, fcfs,
                  analyzeVars, prev >>

\* Lines 118-133.
FCFSReturn ==
  /\ pc = "fcfs_each"
  /\ fidx > Len(fsorted)
  /\ \E n \in { Len(fsorted) } :
     \E data \in { [j \in 1..n |->
                     LET ct  == fgantt[j].end
                         tat == Turnaround(ct, fsorted[j].at)
                         wt  == Waiting(tat, fsorted[j].bt)
                     IN  [id |-> fsorted[j].id, at |-> fsorted[j].at, bt |-> fsorted[j].bt,
                          ct |-> ct, tat |-> tat, wt |-> wt, rt |-> wt]] } :
     \E res \in { SortById(data) } :
       fcfs' = [ resultData |-> res,
                 gantt |-> fgantt,
                 cs |-> ContextSwitches(fgantt),
                 avgTat |-> Avg([j \in 1..n |-> res[j].tat], n),
                 avgWt |-> Avg([j \in 1..n |-> res[j].wt], n),
                 totalBurst |-> SumSeq([j \in 1..Len(processes) |-> processes[j].bt]),
                 totalTime |-> TotalTime(fgantt) ]
  /\ pc' = "done"
  /\ UNCHANGED << processes, quantum, caller, rrVars, fsorted, fidx, ftime, fgantt,
                  analyzeVars, prev, trace >>

----------------------------------------------------------------------------
\* The calls made again, lines 280 and 331

\* `run` calls roundRobin(processes, quantum) again and RRvsFCFSView, rendered
\* again, calls fcfsScheduler(processes) again: the same functions on the same
\* inputs, whatever the calls before left behind.
CallAgain ==
  /\ pc = "done"
  /\ caller = "compare"
  /\ prev = NoResult
  /\ prev' = [rr |-> rr, fcfs |-> fcfs, trace |-> trace]
  /\ rr' = NoResult
  /\ fcfs' = NoResult
  /\ pc' = "rr_call"
  /\ UNCHANGED << processes, quantum, caller, sorted, remaining, completion,
                  firstResponse, time, queue, visited, gantt, fsorted, fidx,
                  ftime, fgantt, analyzeVars, trace >>

----------------------------------------------------------------------------
\* AnalyzeView, lines 360-387 and 424-433

\* Math.max(...processes.map(p => p.bt)) (line 369), of a non-empty list
MaxBt(ps) ==
  CHOOSE b \in { ps[k].bt : k \in 1..Len(ps) } :
    \A k \in 1..Len(ps) : ps[k].bt <= b

\* Math.max(2, maxBt + 3) (line 370)
MaxQ(ps) == Max(2, MaxBt(ps) + 3)

\* Array.from({ length: maxQ - 1 }, (_, i) => i + 1) (line 371): the source's
\* index i holds i + 1, which is the model's index itself.
QValues(ps) == [i \in 1..(MaxQ(ps) - 1) |-> i]

\* The map callback calls roundRobin(processes, q) (line 373).
SweepCall ==
  /\ pc = "sweep"
  /\ Len(points) < Len(QValues(processes))
  /\ quantum' = QValues(processes)[Len(points) + 1]
  /\ rr' = NoResult
  /\ pc' = "rr_call"
  /\ UNCHANGED << processes, caller, sorted, remaining, completion, firstResponse,
                  time, queue, visited, gantt, fcfsVars, analyzeVars, prev, trace >>

\* return { q, awt: r.avgWt, atat: r.avgTat, cs: r.cs } (line 374)
SweepPoint ==
  /\ pc = "sweep_point"
  /\ points' = Append(points, [q |-> quantum, awt |-> rr.avgWt,
                                atat |-> rr.avgTat, cs |-> rr.cs])
  /\ pc' = "sweep"
  /\ UNCHANGED << processes, quantum, caller, rrVars, fcfsVars, analysis, qRange,
                  prev, trace >>

\* Mutant of Less: at most, so that a later point with an equal value wins.
AtMost(x, y) == x.num * y.den <= y.num * x.den

\* p.awt < m.awt (line 376), on quotients with positive denominators
Less(x, y) == x.num * y.den < y.num * x.den

\* points.reduce((m, p) => (p.awt < m.awt ? p : m), points[0]) (line 376),
\* over the first k points.
RECURSIVE MinAwtTo(_, _)
MinAwtTo(pts, k) ==
  IF k = 0 THEN pts[1]
  ELSE LET m == MinAwtTo(pts, k - 1)
       IN  IF Less(pts[k].awt, m.awt) THEN pts[k] ELSE m

MinAwtPoint(pts) == MinAwtTo(pts, Len(pts))

\* .sort((a, b) => a - b) (line 377)
RankByValue(xs, i) ==
  1 + Cardinality({ j \in 1..Len(xs) : xs[j] < xs[i] \/ (xs[j] = xs[i] /\ j < i) })
SortNumbers(xs) ==
  [k \in 1..Len(xs) |-> xs[CHOOSE i \in 1..Len(xs) : RankByValue(xs, i) = k]]

\* Line 378, as a quotient: (b[n/2 - 1] + b[n/2]) / 2 for even n and
\* b[floor(n/2)] for odd n, in the source's 0-based indices.
Median(ps) ==
  LET burst == SortNumbers([k \in 1..Len(ps) |-> ps[k].bt])
      n     == Len(burst)
  IN  IF n % 2 = 0
      THEN [num |-> burst[n \div 2] + burst[n \div 2 + 1], den |-> 2]
      ELSE [num |-> burst[n \div 2 + 1], den |-> 1]

\* Mutant of AdaptiveQ: the floor alone, without the lower limit of 1.
AdaptiveFloorOnly(m) == (4 * m.num) \div (5 * m.den)

\* Math.max(1, Math.floor(median * 0.8)) (line 379).  The median is a
\* multiple of 1/2, so 0.8 * median is an integer or at least 0.2 away from
\* one; the rounding of the double 0.8 and of the product is far smaller and
\* the floor is that of the exact 4 * median / 5.
AdaptiveQ(m) == Max(1, (4 * m.num) \div (5 * m.den))

\* Lines 376-379, once the map over qValues is through.
Analyze ==
  /\ pc = "sweep"
  /\ Len(points) = Len(QValues(processes))
  /\ \E median \in { Median(processes) } :
       analysis' = [ minAwtPoint |-> MinAwtPoint(points),
                     median |-> median,
                     adaptiveQ |-> AdaptiveQ(median) ]
  /\ pc' = "analyzed"
  /\ UNCHANGED << processes, quantum, caller, rrVars, fcfsVars, points, qRange,
                  prev, trace >>

\* Lines 381-387 with sortKey and sortDir as they start, 'q' and 'asc': the
\* points within the range; the sort by q leaves them in the order they have.
Filtered(pts, r) ==
  IF r = NoRange THEN pts
  ELSE SelectSeq(pts, LAMBDA p : p.q >= r[1] /\ p.q <= r[2])

\* What e.target.value can be in the Q Range inputs: the empty string, <<>>
\* here, or the text of an integer v, <<v>> here.
RangeTexts == { <<>> } \cup { <<v>> : v \in (-1)..(MaxQuantum + 1) }

\* qValues[qValues.length - 1] (lines 424, 426)
LastQ(ps) == QValues(ps)[Len(QValues(ps))]

\* onChange of the "min" input (lines 424-427)
SetRangeMin(raw) ==
  /\ pc = "analyzed"
  /\ qRange' = IF raw = <<>> THEN qRange
               ELSE << Max(1, raw[1]),
                       IF qRange = NoRange THEN LastQ(processes) ELSE qRange[2] >>
  /\ UNCHANGED << processes, quantum, caller, pc, rrVars, fcfsVars, points,
                  analysis, prev, trace >>

\* onChange of the "max" input (lines 429-432)
SetRangeMax(raw) ==
  /\ pc = "analyzed"
  /\ qRange' = IF raw = <<>> THEN qRange
               ELSE << IF qRange = NoRange THEN 1 ELSE qRange[1],
                       Max(1, raw[1]) >>
  /\ UNCHANGED << processes, quantum, caller, pc, rrVars, fcfsVars, points,
                  analysis, prev, trace >>

\* onClick of Clear (line 433)
ClearRange ==
  /\ pc = "analyzed"
  /\ qRange' = NoRange
  /\ UNCHANGED << processes, quantum, caller, pc, rrVars, fcfsVars, points,
                  analysis, prev, trace >>

----------------------------------------------------------------------------
\* The process table: the editing handlers (lines 285-296, 673, 684)

\* What Math.random() returns, a number in [0, 1): its least value here.
RandomNumbers == { [num |-> 0, den |-> 1] }

\* Math.floor(Math.random() * 6) (lines 181, 286)
RandomAt(r) == (r.num * 6) \div r.den

\* Math.floor(Math.random() * 9) + 1 (lines 181, 286)
RandomBt(r) == ((r.num * 9) \div r.den) + 1

\* Lists of length n whose every at and bt is drawn on its own.
RandomLists(n) ==
  { [j \in 1..n |-> Proc(j, RandomAt(f[j][1]), RandomBt(f[j][2]))] :
      f \in [1..n -> RandomNumbers \X RandomNumbers] }

\* The "Random 5" preset (line 181)
PRESET_RANDOM_5 == RandomLists(5)

\* The lists the Presets buttons hand to onApply (lines 177-182, 186).
PresetData ==
  { PRESET_SMALL_MIX, PRESET_CPU_BOUND, PRESET_IO_BOUND } \cup PRESET_RANDOM_5

\* The longest list the table is grown to here: the longest preset.
LongestList == Len(PRESET_IO_BOUND)

\* What e.target.value can be in a cell of the table: empty, letters, or
\* the decimal text of the integer val.
EditTexts ==
  { [kind |-> "empty", val |-> 0], [kind |-> "letters", val |-> 0] }
    \cup { [kind |-> "integer", val |-> v] : v \in { -1, 1 } }

\* NaN, and a number v as << v >>.
NaN == <<>>

\* parseInt(raw, 10) (line 293)
ParseInt(raw) == IF raw.kind = "integer" THEN << raw.val >> ELSE NaN

\* isNaN(value) ? 0 : Math.max(field === 'bt' ? 1 : 0, value) (line 294)
UpdateValue(field, value) ==
  IF value = NaN THEN 0 ELSE Max(IF field = "bt" THEN 1 ELSE 0, value[1])

\* Mutant of Renumber: the ids the rows had.
KeepIds(ps) == ps

\* .map((p, idx) => ({ ...p, id: idx + 1 })) (line 290)
Renumber(ps) == [j \in 1..Len(ps) |-> Proc(j, ps[j].at, ps[j].bt)]

\* What the editing handlers leave alone.
editUnchanged ==
  UNCHANGED << quantum, caller, pc, rrVars, fcfsVars, analyzeVars, prev, trace >>

\* randomize (lines 285-287)
Randomize ==
  /\ pc = "editing"
  /\ \E rnd \in RandomLists(Len(processes)) :
       processes' = [j \in 1..Len(processes) |->
                       Proc(processes[j].id, rnd[j].at, rnd[j].bt)]
  /\ editUnchanged

\* add (line 289)
Add ==
  /\ pc = "editing"
  /\ Len(processes) < LongestList
  /\ processes' = Append(processes, Proc(Len(processes) + 1, 0, 1))
  /\ editUnchanged

\* remove (line 290)
Remove(id) ==
  /\ pc = "editing"
  /\ processes' = IF Len(processes) > 1
                  THEN Renumber(SelectSeq(processes, LAMBDA p : p.id # id))
                  ELSE processes
  /\ editUnchanged

\* update (lines 292-294); errors (lines 256, 295) only labels the cell.
Update(id, field, raw) ==
  /\ pc = "editing"
  /\ \E value \in { ParseInt(raw) } :
       processes' = [j \in 1..Len(processes) |->
                       IF processes[j].id = id
                       THEN [processes[j] EXCEPT ![field] = UpdateValue(field, value)]
                       ELSE processes[j]]
  /\ editUnchanged

\* onClick of Reset (line 673)
Reset ==
  /\ pc = "editing"
  /\ processes' = DEFAULT_PROCESSES
  /\ editUnchanged

\* onClick of a preset button (lines 186, 684)
ApplyPreset(data) ==
  /\ pc = "editing"
  /\ processes' = data
  /\ editUnchanged

----------------------------------------------------------------------------
\* Inputs

\* Process lists of length n with ids 1..n in list order, as the form keeps
\* them (lines 176, 289, 290).
ProcLists(n, ats, bts) ==
  { [j \in 1..n |-> Proc(j, f[j][1], f[j][2])] : f \in [1..n -> ats \X bts] }

\* Process lists of length n whose ids 1..n are in list order or in its
\* reverse: roundRobin takes any list (line 40).
ProcListsAnyIds(n, ats, bts) ==
  ProcLists(n, ats, bts)
    \cup { [j \in 1..n |-> Proc(n + 1 - j, f[j][1], f[j][2])] :
             f \in [1..n -> ats \X bts] }

InitWork ==
  /\ points = <<>> /\ analysis = NoResult /\ qRange = NoRange
  /\ prev = NoResult /\ trace = <<>>
  /\ sorted = <<>> /\ remaining = <<>> /\ completion = <<>>
  /\ firstResponse = <<>> /\ time = 0 /\ queue = <<>> /\ visited = <<>>
  /\ gantt = <<>> /\ rr = NoResult
  /\ fsorted = <<>> /\ fidx = 1 /\ ftime = 0 /\ fgantt = <<>> /\ fcfs = NoResult

\* Calls within the simulators' contract (a non-empty list, arrival >= 0,
\* burst > 0, quantum >= 1), the form's default and preset lists among them.
Init ==
  /\ \/ /\ \E n \in 1..MaxProcs :
               processes \in ProcLists(n, 0..MaxArrival, 1..MaxBurst)
        /\ quantum \in 1..MaxQuantum
     \/ /\ processes \in FormLists
        /\ quantum \in FormQuanta
  /\ caller = "compare"
  /\ pc = "rr_call"
  /\ InitWork

\* Any call, inputs outside the contract included: the empty list, negative
\* arrivals, non-positive bursts, a quantum below 1.
InitAny ==
  /\ \E n \in 0..MaxProcs :
       processes \in ProcLists(n, (-1)..MaxArrival, 0..MaxBurst)
  /\ quantum \in (-1)..MaxQuantum
  /\ caller = "compare"
  /\ pc = "rr_call"
  /\ InitWork

\* `run` on lists of up to MaxProcs + 1 processes within the contract, their
\* ids in list order or not.
InitRun ==
  /\ \E n \in 1..(MaxProcs + 1) :
       processes \in ProcListsAnyIds(n, 0..(MaxArrival - 1), 1..(MaxBurst - 1))
  /\ quantum \in 1..(MaxQuantum - 1)
  /\ caller = "run"
  /\ pc = "rr_call"
  /\ InitWork

\* AnalyzeView rendered on a list within the contract.
InitAnalyze ==
  /\ \/ \E n \in 1..MaxProcs :
          processes \in ProcLists(n, 0..MaxArrival, 1..MaxBurst)
     \/ processes \in FormLists
  /\ quantum = DEFAULT_QUANTUM
  /\ caller = "analyze"
  /\ pc = "sweep"
  /\ InitWork

\* The table as the page first shows it (lines 248-249).
InitEdit ==
  /\ processes = DEFAULT_PROCESSES
  /\ quantum = DEFAULT_QUANTUM
  /\ caller = "table"
  /\ pc = "editing"
  /\ InitWork

Next ==
  \/ RRSetup
  \/ RRSlice
  \/ RRReturn
  \/ FCFSSetup
  \/ FCFSEach
  \/ FCFSReturn

NextTwice ==
  \/ Next
  \/ CallAgain

NextRun ==
  \/ RRSetup
  \/ RRSlice
  \/ RRReturn

NextAnalyze ==
  \/ SweepCall
  \/ RRSetup
  \/ RRSlice
  \/ RRReturn
  \/ SweepPoint
  \/ Analyze
  \/ \E raw \in RangeTexts : SetRangeMin(raw)
  \/ \E raw \in RangeTexts : SetRangeMax(raw)
  \/ ClearRange

NextEdit ==
  \/ Add
  \/ \E p \in { processes[j] : j \in 1..Len(processes) } : Remove(p.id)
  \/ \E p \in { processes[j] : j \in 1..Len(processes) } :
       \E field \in { "at", "bt" } : \E raw \in EditTexts : Update(p.id, field, raw)
  \/ Randomize
  \/ Reset
  \/ \E data \in PresetData : ApplyPreset(data)

Spec == Init /\ [][Next]_vars

\* The calls of Spec, each made twice.
SpecTwice == Init /\ [][NextTwice]_vars

\* `run` on lists of one more process, ids in either order.
SpecRun == InitRun /\ [][NextRun]_vars

\* AnalyzeView: the sweep, the analysis and the Q Range filter.
SpecAnalyze == InitAnalyze /\ [][NextAnalyze]_vars

\* The process table, edited from the default list.
SpecEdit == InitEdit /\ [][NextEdit]_vars

SpecAny == InitAny /\ [][Next]_vars

\* roundRobin and fcfsScheduler are synchronous loops: a step that can be
\* taken is taken.
SpecLive == Init /\ [][Next]_vars /\ WF_vars(Next)

----------------------------------------------------------------------------
\* Vocabulary of the properties

Dur(seg) == seg.end - seg.start

\* The segments of process `id` in timeline g, in order.
SegsOf(g, id) == SelectSeq(g, LAMBDA seg : seg.pid = Pid(id))

SumDur(g) == SumSeq([k \in 1..Len(g) |-> Dur(g[k])])

SumBurst(ps) == SumSeq([k \in 1..Len(ps) |-> ps[k].bt])

\* ceil(a / b) for b >= 1
Ceil(a, b) == (a + b - 1) \div b

\* roundRobin's while loop has exited: its condition was found false (pc
\* still rr_loop, queue empty) or the function has returned.
RRLoopExited == pc \notin {"rr_call"} /\ (pc = "rr_loop" => queue = <<>>)

\* fcfsScheduler's forEach has processed every element.
FCFSLoopExited == \/ pc = "done"
                  \/ pc = "fcfs_each" /\ fidx > Len(fsorted)

----------------------------------------------------------------------------
\* C1 - Conservation.  When roundRobin's loop has exited, the durations of
\* all gantt segments sum to the sum of the burst times, the durations of
\* each process's own segments sum to its burst time, and remaining[i] = 0
\* for every process; the first two also hold of fcfsScheduler's gantt once
\* its forEach is over.
Conservation ==
  /\ RRLoopExited =>
       /\ SumDur(gantt) = SumBurst(processes)
       /\ \A j \in 1..Len(sorted) :
            /\ SumDur(SegsOf(gantt, sorted[j].id)) = sorted[j].bt
            /\ remaining[j] = 0
  /\ FCFSLoopExited =>
       /\ SumDur(fgantt) = SumBurst(processes)
       /\ \A j \in 1..Len(fsorted) :
            SumDur(SegsOf(fgantt, fsorted[j].id)) = fsorted[j].bt

\* Both simulators are through a list of several processes, one of which
\* roundRobin ran in more than one slice.
ConservationWitness ==
  /\ pc = "done"
  /\ Len(processes) >= 2
  /\ \E j \in 1..Len(sorted) : Len(SegsOf(gantt, sorted[j].id)) >= 2

----------------------------------------------------------------------------
Seg(id, start, end) == [pid |-> Pid(id), start |-> start, end |-> end]

\* roundRobin has returned from the call on DEFAULT_PROCESSES with quantum 4.
KnownScenarioCall ==
  processes = DEFAULT_PROCESSES /\ quantum = DEFAULT_QUANTUM /\ rr # NoResult

\* C2 - Known RR scenario, as the specification states it: DEFAULT_PROCESSES
\* with quantum 4 gives P1[0,4) P2[4,7) P3[7,11) P4[11,15) P1[15,16)
\* P3[16,20) P4[20,22) P3[22,24) and totalTime 24.
KnownScenarioAsStated ==
  KnownScenarioCall =>
    /\ rr.gantt = << Seg(1, 0, 4), Seg(2, 4, 7), Seg(3, 7, 11), Seg(4, 11, 15),
                     Seg(1, 15, 16), Seg(3, 16, 20), Seg(4, 20, 22), Seg(3, 22, 24) >>
    /\ rr.totalTime = 24

\* C2 - Known RR scenario, amended: the run ends with P4[20,22); P3's 8 units
\* are spent in [7,11) and [16,20), so there is no eighth segment and
\* totalTime is 22, the sum of the bursts.
KnownScenario ==
  KnownScenarioCall =>
    /\ rr.gantt = << Seg(1, 0, 4), Seg(2, 4, 7), Seg(3, 7, 11), Seg(4, 11, 15),
                     Seg(1, 15, 16), Seg(3, 16, 20), Seg(4, 20, 22) >>
    /\ rr.totalTime = 22

\* roundRobin has returned from the known scenario's call.
KnownScenarioWitness == KnownScenarioCall /\ Len(rr.gantt) > 0

----------------------------------------------------------------------------
\* roundRobin has returned from a call on a single process.
SingleProcessCall == Len(processes) = 1 /\ quantum >= 1 /\ rr # NoResult

\* C3 - Single process, as the specification states it: one process and any
\* quantum >= 1 give exactly one segment [at, at + bt), waitingTime 0,
\* turnaroundTime bt and no context switch.
SingleProcessAsStated ==
  SingleProcessCall =>
    LET p == processes[1]
    IN  /\ rr.gantt = << Seg(p.id, p.at, p.at + p.bt) >>
        /\ rr.resultData[1].wt = 0
        /\ rr.resultData[1].tat = p.bt
        /\ rr.cs = 0

\* C3 - Single process, amended: the process runs in ceil(bt / q) segments,
\* all its own, back to back from at to at + bt (one segment exactly when
\* q >= bt); waitingTime 0, turnaroundTime bt and no context switch.
SingleProcess ==
  SingleProcessCall =>
    LET p == processes[1]
        g == rr.gantt
    IN  /\ Len(g) = Ceil(p.bt, quantum)
        /\ (Len(g) = 1) <=> (quantum >= p.bt)
        /\ \A k \in 1..Len(g) : g[k].pid = Pid(p.id)
        /\ g[1].start = p.at
        /\ \A k \in 1..(Len(g) - 1) : g[k + 1].start = g[k].end
        /\ g[Len(g)].end = p.at + p.bt
        /\ rr.resultData[1].wt = 0
        /\ rr.resultData[1].tat = p.bt
        /\ rr.cs = 0

\* roundRobin has returned from a single-process call whose quantum is
\* smaller than the burst.
SingleProcessWitness ==
  SingleProcessCall /\ quantum < processes[1].bt /\ Len(rr.gantt) >= 2

----------------------------------------------------------------------------
\* C4 - InvalidQuantum.  A roundRobin call with quantum < 1 is rejected: it
\* builds no timeline, not even a partial one, and returns no result.
InvalidQuantumRejected ==
  quantum < 1 => (gantt = <<>> /\ rr = NoResult)

----------------------------------------------------------------------------
\* Every process has remaining = 0 and a recorded completion time, the end
\* of its last segment.
AllCompleted ==
  /\ Len(sorted) = Len(processes)
  /\ \A j \in 1..Len(sorted) :
       LET segs == SegsOf(gantt, sorted[j].id)
       IN  /\ remaining[j] = 0
           /\ Len(segs) > 0
           /\ completion[j] = segs[Len(segs)].end

\* C5 - Termination.  On a non-empty list with arrival >= 0 and burst > 0 and
\* a quantum >= 1 (every call of Init), roundRobin's loop eventually exits for
\* good, the ready queue empty, and from then on every process has
\* remaining = 0 and a recorded completion time.
Termination == <>[](RRLoopExited /\ queue = <<>> /\ AllCompleted)

\* The loop has exited after more slices than there are processes (some
\* process was re-queued) and after an idle gap was bridged.
TerminationWitness ==
  /\ RRLoopExited /\ AllCompleted
  /\ Len(gantt) > Len(processes)
  /\ \E k \in 1..(Len(gantt) - 1) : gantt[k + 1].start > gantt[k].end

----------------------------------------------------------------------------
\* C6 - RR fairness bound.  When roundRobin's loop has exited, each process
\* has exactly ceil(bt / q) segments; each but the last lasts q and the last
\* lasts bt - q * (ceil(bt / q) - 1).
FairnessBound ==
  RRLoopExited =>
    \A j \in 1..Len(sorted) :
      LET segs == SegsOf(gantt, sorted[j].id)
          c    == Ceil(sorted[j].bt, quantum)
      IN  /\ Len(segs) = c
          /\ \A k \in 1..(c - 1) : Dur(segs[k]) = quantum
          /\ Dur(segs[c]) = sorted[j].bt - quantum * (c - 1)

\* Some process ran in three slices or more, the last one shorter than the
\* quantum.
FairnessBoundWitness ==
  /\ RRLoopExited
  /\ \E j \in 1..Len(sorted) :
       LET segs == SegsOf(gantt, sorted[j].id)
       IN  Len(segs) >= 3 /\ Dur(segs[Len(segs)]) < quantum

----------------------------------------------------------------------------
\* Timeline g is chronological and free of overlaps and empty segments.
Ordered(g) ==
  /\ \A k \in 1..Len(g) : g[k].end > g[k].start
  /\ \A k \in 1..(Len(g) - 1) : g[k + 1].start >= g[k].end

\* C7 - Ordering.  In roundRobin's and fcfsScheduler's gantt, while it is
\* built and as returned, every segment has end > start and each segment
\* starts no earlier than the one before it ends.
Ordering ==
  /\ Ordered(gantt)
  /\ Ordered(fgantt)
  /\ rr # NoResult => Ordered(rr.gantt)
  /\ fcfs # NoResult => Ordered(fcfs.gantt)

\* Both simulators have returned timelines with an idle gap in them, the
\* round-robin one of three segments or more.
OrderingWitness ==
  /\ rr # NoResult /\ fcfs # NoResult
  /\ Len(rr.gantt) >= 3 /\ Len(fcfs.gantt) >= 2
  /\ \E k \in 1..(Len(rr.gantt) - 1) : rr.gantt[k + 1].start > rr.gantt[k].end
  /\ \E k \in 1..(Len(fcfs.gantt) - 1) : fcfs.gantt[k + 1].start > fcfs.gantt[k].end

----------------------------------------------------------------------------
\* C8 - Waiting-time non-negativity.  Every process in the result of
\* roundRobin and of fcfsScheduler has waitingTime >= 0.
WaitingNonNegative ==
  /\ rr # NoResult =>
       \A k \in 1..Len(rr.resultData) : rr.resultData[k].wt >= 0
  /\ fcfs # NoResult =>
       \A k \in 1..Len(fcfs.resultData) : fcfs.resultData[k].wt >= 0

\* Both simulators have returned, the first arrival is after time 0, and in
\* each result one process waited and another did not.
WaitingNonNegativeWitness ==
  /\ rr # NoResult /\ fcfs # NoResult
  /\ \A k \in 1..Len(processes) : processes[k].at > 0
  /\ \E k, m \in 1..Len(rr.resultData) :
       rr.resultData[k].wt > 0 /\ rr.resultData[m].wt = 0
  /\ \E k, m \in 1..Len(fcfs.resultData) :
       fcfs.resultData[k].wt > 0 /\ fcfs.resultData[m].wt = 0

----------------------------------------------------------------------------
InvalidProcess(p) == p.at < 0 \/ p.bt <= 0

\* What a run over a burst-0 process leaves in a result.
BurstZeroTraces(res) ==
  \/ \E k \in 1..Len(res.gantt) : res.gantt[k].end = res.gantt[k].start
  \/ \E k \in 1..Len(res.resultData) :
       LET r == res.resultData[k]
       IN  \/ r.ct = 0 /\ r.at > 0
           \/ r.wt < 0
           \/ r.tat < 0
           \/ r.rt = -1

\* C9 - InvalidProcess.  A list holding a process with negative arrival time
\* or burst time <= 0 is rejected by roundRobin and by fcfsScheduler: neither
\* returns a result for it, so no result holds a zero-length segment, a
\* completion time of 0 for a process that arrived later, a negative waiting
\* or turnaround time, or a response time of -1.
InvalidProcessRejected ==
  /\ (\E k \in 1..Len(processes) : InvalidProcess(processes[k])) =>
       (rr = NoResult /\ fcfs = NoResult)
  /\ (\E k \in 1..Len(processes) : processes[k].bt = 0) =>
       /\ rr # NoResult => ~BurstZeroTraces(rr)
       /\ fcfs # NoResult => ~BurstZeroTraces(fcfs)

----------------------------------------------------------------------------
\* 0 / 0
IsNaN(x) == x.den = 0 /\ x.num = 0

\* C10 - EmptyInput.  roundRobin and fcfsScheduler return no result for an
\* empty process list; in particular none whose averages are 0 / 0.
EmptyInputRejected ==
  processes = <<>> =>
    /\ rr = NoResult
    /\ fcfs = NoResult
    /\ rr # NoResult => (~IsNaN(rr.avgTat) /\ ~IsNaN(rr.avgWt))
    /\ fcfs # NoResult => (~IsNaN(fcfs.avgTat) /\ ~IsNaN(fcfs.avgWt))

----------------------------------------------------------------------------
\* The place of the process with this id in list ps.
PosOf(ps, id) == CHOOSE k \in 1..Len(ps) : ps[k].id = id

\* List ps lists every process of the input once, by arrival time and, among
\* equal arrival times, by place in the input.
InArrivalOrder(ps) ==
  /\ Len(ps) = Len(processes)
  /\ \A k \in 1..Len(processes) : \E m \in 1..Len(ps) : ps[m] = processes[k]
  /\ \A k, m \in 1..Len(ps) :
       k < m => \/ ps[k].at < ps[m].at
                \/ /\ ps[k].at = ps[m].at
                   /\ PosOf(processes, ps[k].id) < PosOf(processes, ps[m].id)

\* C11 - FCFS degeneracy.  When fcfsScheduler's forEach is over, every
\* process has exactly one segment in its gantt; the segments come in
\* (arrival time, input position) order, each one [max(clock, at), +bt) where
\* clock is the end of the segment before it (0 for the first); and in the
\* result every process has rt = wt = start of its segment - at.
FCFSDegeneracy ==
  /\ FCFSLoopExited =>
       /\ InArrivalOrder(fsorted)
       /\ Len(fgantt) = Len(fsorted)
       /\ \A k \in 1..Len(fsorted) :
            LET clock == IF k = 1 THEN 0 ELSE fgantt[k - 1].end
            IN  /\ fgantt[k].pid = Pid(fsorted[k].id)
                /\ fgantt[k].start = Max(clock, fsorted[k].at)
                /\ fgantt[k].end = fgantt[k].start + fsorted[k].bt
                /\ Len(SegsOf(fgantt, fsorted[k].id)) = 1
  /\ fcfs # NoResult =>
       /\ Len(fcfs.resultData) = Len(processes)
       /\ \A k \in 1..Len(fcfs.resultData) :
            LET r    == fcfs.resultData[k]
                segs == SegsOf(fcfs.gantt, r.id)
            IN  /\ Len(segs) = 1
                /\ r.rt = r.wt
                /\ r.wt = segs[1].start - r.at

\* fcfsScheduler has returned from a list it had to reorder; the first
\* process started at its arrival, after time 0, and another had to wait.
FCFSDegeneracyWitness ==
  /\ fcfs # NoResult
  /\ fsorted # processes
  /\ fcfs.gantt[1].start > 0
  /\ \E k \in 1..Len(fcfs.resultData) : fcfs.resultData[k].wt > 0

----------------------------------------------------------------------------
\* The metrics of result res agree with its timeline and with the input.
MetricsConsistent(res) ==
  /\ Len(res.resultData) = Len(processes)
  /\ \A k \in 1..Len(res.resultData) :
       LET r    == res.resultData[k]
           p    == processes[PosOf(processes, r.id)]
           segs == SegsOf(res.gantt, r.id)
       IN  /\ r.at = p.at /\ r.bt = p.bt
           /\ Len(segs) > 0
           /\ r.ct = segs[Len(segs)].end
           /\ r.tat = r.ct - r.at
           /\ r.wt = r.tat - r.bt
  /\ SumSeq([k \in 1..Len(res.resultData) |-> res.resultData[k].tat])
       - SumSeq([k \in 1..Len(res.resultData) |-> res.resultData[k].wt])
       = SumBurst(processes)

\* C15 - Per-process metric invariants.  In the result of roundRobin and of
\* fcfsScheduler every process has ct = the end of its last segment,
\* tat = ct - at and wt = tat - bt, and the turnaround times less the waiting
\* times sum to the burst times.
MetricInvariants ==
  /\ rr # NoResult => MetricsConsistent(rr)
  /\ fcfs # NoResult => MetricsConsistent(fcfs)

\* Both simulators have returned from a list of several processes, the first
\* arrival after time 0; roundRobin ran some process in several slices and in
\* each result some process waited.
MetricInvariantsWitness ==
  /\ rr # NoResult /\ fcfs # NoResult
  /\ Len(processes) >= 2
  /\ \A k \in 1..Len(processes) : processes[k].at > 0
  /\ Len(rr.gantt) > Len(processes)
  /\ \E k \in 1..Len(rr.resultData) : rr.resultData[k].wt > 0
  /\ \E k \in 1..Len(fcfs.resultData) : fcfs.resultData[k].wt > 0

----------------------------------------------------------------------------
\* The sweep of AnalyzeView is through and its analysis is made.
Swept == analysis # NoResult

\* C12 - Default sweep range.  With no range given, the analysis holds
\* exactly one sweep point for every integer q with
\* 1 <= q <= max(2, maxBurstTime + 3), both bounds included, in ascending q.
DefaultSweepRange ==
  Swept =>
    LET top == Max(2, MaxBt(processes) + 3)
    IN  /\ Len(points) = top
        /\ \A q \in 1..top : points[q].q = q

----------------------------------------------------------------------------
\* C13 - Optimal quantum.  The reported optimal point is a point of the
\* sweep; no swept point has a strictly smaller average waiting time, and no
\* swept point with a smaller quantum has an equal one.
OptimalQuantum ==
  Swept =>
    LET m == analysis.minAwtPoint
    IN  /\ \E k \in 1..Len(points) : points[k] = m
        /\ \A k \in 1..Len(points) :
             LET p == points[k]
             IN  /\ p.awt.num * m.awt.den >= m.awt.num * p.awt.den
                 /\ p.q < m.q => p.awt.num * m.awt.den > m.awt.num * p.awt.den

\* The average waiting time goes down, up and down again along the sweep;
\* the optimal point is neither the first nor the last of the sweep and a
\* later point has the same average waiting time.
OptimalQuantumWitness ==
  /\ Swept
  /\ \E a, b, c \in 1..Len(points) :
       /\ a < b /\ b < c
       /\ Less(points[a + 1].awt, points[a].awt)
       /\ Less(points[b].awt, points[b + 1].awt)
       /\ Less(points[c + 1].awt, points[c].awt)
  /\ analysis.minAwtPoint.q > 1
  /\ analysis.minAwtPoint.q < Len(points)
  /\ \E k \in 1..Len(points) :
       /\ points[k].q > analysis.minAwtPoint.q
       /\ points[k].awt = analysis.minAwtPoint.awt

----------------------------------------------------------------------------
\* The k-th smallest burst time of list ps, repetitions counted.
KthBurst(ps, k) ==
  CHOOSE v \in { ps[j].bt : j \in 1..Len(ps) } :
    /\ Cardinality({ j \in 1..Len(ps) : ps[j].bt < v }) < k
    /\ Cardinality({ j \in 1..Len(ps) : ps[j].bt <= v }) >= k

\* Twice the median of the burst times of ps.
TwiceMedianBurst(ps) ==
  LET n == Len(ps)
  IN  IF n % 2 = 1 THEN 2 * KthBurst(ps, (n + 1) \div 2)
      ELSE KthBurst(ps, n \div 2) + KthBurst(ps, n \div 2 + 1)

\* C14 - Adaptive quantum.  For a non-empty list with bursts >= 1 the
\* adaptive quantum a is max(1, floor(0.8 * m)), m the median of the burst
\* times (the mean of the two middle ones for even n): an integer >= 1 that
\* is 1 when 0.8 * m < 1 and otherwise has a <= 0.8 * m < a + 1; it is
\* determined by the burst times alone, not by the arrivals or the sweep.
AdaptiveQuantum ==
  Swept =>
    LET a  == analysis.adaptiveQ
        m2 == TwiceMedianBurst(processes)
    IN  /\ a \in Nat
        /\ a >= 1
        /\ analysis.median.num * 2 = m2 * analysis.median.den
        /\ IF 4 * m2 < 10 THEN a = 1
           ELSE 10 * a <= 4 * m2 /\ 4 * m2 < 10 * (a + 1)

\* An analysis of an even number of processes listed with their bursts out of
\* order, the median not an integer and 0.8 of it neither.
AdaptiveQuantumWitness ==
  /\ Swept
  /\ Len(processes) % 2 = 0
  /\ \E k \in 1..(Len(processes) - 1) : processes[k].bt > processes[k + 1].bt
  /\ analysis.median.den = 2
  /\ analysis.median.num % 2 = 1
  /\ analysis.adaptiveQ >= 2

\* An analysis of a list whose median burst is 1: the floor of 0.8 is 0.
AdaptiveQuantumLowWitness ==
  /\ Swept
  /\ analysis.median.num = analysis.median.den
  /\ analysis.adaptiveQ = 1

----------------------------------------------------------------------------
\* The range asked for when text raw is typed into the min input, and into
\* the max input, while range r is in force over list ps.
AskedByMin(raw, r, ps) == << raw[1], IF r = NoRange THEN LastQ(ps) ELSE r[2] >>
AskedByMax(raw, r, ps) == << IF r = NoRange THEN 1 ELSE r[1], raw[1] >>

Malformed(r) == r[1] < 1 \/ r[2] < r[1]

\* C17 - InvalidRange.  A range asked for with qMin < 1 or qMax < qMin is
\* refused: the step that asks for it leaves the range in force as it was,
\* it neither puts a clamped or inverted range in force nor changes the table
\* of points shown.
InvalidRangeRejected ==
  [][ \A raw \in RangeTexts \ { <<>> } :
        /\ (SetRangeMin(raw) /\ Malformed(AskedByMin(raw, qRange, processes)))
             => /\ qRange' = qRange
                /\ Filtered(points', qRange') = Filtered(points, qRange)
        /\ (SetRangeMax(raw) /\ Malformed(AskedByMax(raw, qRange, processes)))
             => /\ qRange' = qRange
                /\ Filtered(points', qRange') = Filtered(points, qRange) ]_vars

----------------------------------------------------------------------------
\* C16 - Determinism / idempotence.  When roundRobin and fcfsScheduler are
\* called a second time on the same list and quantum, with whatever the first
\* calls left behind, the second calls pass through the same queue and clock
\* states as the first, step for step, and return the same results: the same
\* gantt, per-process records and aggregates.
Determinism ==
  prev # NoResult =>
    /\ Len(trace) <= Len(prev.trace)
    /\ \A k \in 1..Len(trace) : trace[k] = prev.trace[k]
    /\ rr # NoResult => rr = prev.rr
    /\ fcfs # NoResult => (fcfs = prev.fcfs /\ trace = prev.trace)

\* Both functions have returned a second time, from a list of several
\* processes that roundRobin ran with preemption and across an idle gap.
DeterminismWitness ==
  /\ prev # NoResult
  /\ rr # NoResult /\ fcfs # NoResult
  /\ Len(processes) >= 2
  /\ Len(rr.gantt) > Len(processes)
  /\ \E k \in 1..(Len(rr.gantt) - 1) : rr.gantt[k + 1].start > rr.gantt[k].end

----------------------------------------------------------------------------
\* Index of the first segment of process `id` in timeline g, 0 if none.
FirstSeg(g, id) ==
  LET S == { k \in 1..Len(g) : g[k].pid = Pid(id) }
  IN  IF S = {} THEN 0 ELSE CHOOSE k \in S : \A m \in S : k <= m

\* Index of the first segment of process `id` in g after segment k, 0 if none.
NextSeg(g, id, k) ==
  LET S == { m \in (k + 1)..Len(g) : g[m].pid = Pid(id) }
  IN  IF S = {} THEN 0 ELSE CHOOSE m \in S : \A x \in S : m <= x

\* The place of index j of `sorted` in the ready queue qu, 0 if not in it.
QueuePos(qu, j) ==
  IF \E m \in 1..Len(qu) : qu[m] = j
  THEN CHOOSE m \in 1..Len(qu) : qu[m] = j
  ELSE 0

\* C18 - Arrival priority over re-queue.  When a slice of process i has just
\* ended at time t with work left for i, every other process that has arrived
\* by t and has not run yet is in the ready queue ahead of i; and in the
\* timeline, a process that had arrived by the end of a slice of i and had
\* not run by then is dispatched for the first time before i's next slice.
ArrivalBeforeRequeue ==
  /\ (pc = "rr_loop" /\ gantt # <<>>) =>
       LET last == gantt[Len(gantt)]
           i    == CHOOSE j \in 1..Len(sorted) : Pid(sorted[j].id) = last.pid
       IN  remaining[i] > 0 =>
             /\ QueuePos(queue, i) > 0
             /\ \A j \in 1..Len(sorted) :
                  (j # i /\ sorted[j].at <= last.end
                        /\ FirstSeg(gantt, sorted[j].id) = 0) =>
                    /\ QueuePos(queue, j) > 0
                    /\ QueuePos(queue, j) < QueuePos(queue, i)
  /\ \A k \in 1..Len(gantt) : \A j \in 1..Len(sorted) :
       LET nxt == NextSeg(gantt, gantt[k].pid[2], k)
           fst == FirstSeg(gantt, sorted[j].id)
       IN  (nxt # 0 /\ Pid(sorted[j].id) # gantt[k].pid
              /\ sorted[j].at <= gantt[k].end) =>
             (fst # 0 /\ fst < nxt)

\* A slice has just ended with work left for its process while another
\* process waited in the queue, and a third one, which arrived during the
\* slice, has been queued between the two.
ArrivalBeforeRequeueWitness ==
  /\ pc = "rr_loop" /\ Len(gantt) >= 1 /\ Len(queue) = 3
  /\ Pid(sorted[queue[3]].id) = gantt[Len(gantt)].pid
  /\ sorted[queue[2]].at > gantt[Len(gantt)].start
  /\ FirstSeg(gantt, sorted[queue[2]].id) = 0

----------------------------------------------------------------------------
\* Index j of the sorted list is put into the ready queue for the first time
\* by the step at hand.
NewlyQueued(j) ==
  /\ j \in DOMAIN visited'
  /\ visited'[j]
  /\ ~(j \in DOMAIN visited /\ visited[j])

\* Process p comes before process r by arrival time and, for equal arrival
\* times, by place in the input list.
ArrivesBefore(p, r) ==
  \/ p.at < r.at
  \/ p.at = r.at /\ PosOf(processes, p.id) < PosOf(processes, r.id)

\* C19 - Id-ascending enqueue, as the specification states it: the processes
\* that one scan of roundRobin puts into the ready queue stand in it in
\* ascending id order.
IdAscendingEnqueue ==
  [][ \A a, b \in DOMAIN sorted' :
        (NewlyQueued(a) /\ NewlyQueued(b) /\ sorted'[a].id < sorted'[b].id)
          => QueuePos(queue', a) < QueuePos(queue', b) ]_vars

\* C19 - Enqueue order, amended: the processes that one scan of roundRobin
\* puts into the ready queue stand in it in ascending order of arrival time
\* and, for equal arrival times, of place in the input list.
ArrivalOrderEnqueue ==
  [][ \A a, b \in DOMAIN sorted' :
        (NewlyQueued(a) /\ NewlyQueued(b) /\ ArrivesBefore(sorted'[a], sorted'[b]))
          => /\ QueuePos(queue', a) > 0
             /\ QueuePos(queue', a) < QueuePos(queue', b) ]_vars

\* Two processes that arrived during the last slice, at different times, wait
\* in the ready queue for their first slice, the one with the larger id ahead.
ArrivalOrderEnqueueWitness ==
  /\ pc = "rr_loop" /\ Len(gantt) >= 1
  /\ \E m, n \in 1..Len(queue) :
       /\ m < n
       /\ FirstSeg(gantt, sorted[queue[m]].id) = 0
       /\ FirstSeg(gantt, sorted[queue[n]].id) = 0
       /\ sorted[queue[m]].at > gantt[Len(gantt)].start
       /\ sorted[queue[m]].at < sorted[queue[n]].at
       /\ sorted[queue[m]].id > sorted[queue[n]].id

----------------------------------------------------------------------------
\* C20 - First-dispatch order is FCFS order.  In every roundRobin run, while
\* the timeline is built and when it is complete, a process with a segment
\* in it is preceded by the first segment of every process that comes before
\* it by (arrival time, input position); the first segments therefore start
\* in that order.
FirstDispatchOrder ==
  \A a, b \in 1..Len(processes) :
    LET fa == FirstSeg(gantt, processes[a].id)
        fb == FirstSeg(gantt, processes[b].id)
    IN  (ArrivesBefore(processes[a], processes[b]) /\ fb # 0) =>
          /\ fa # 0
          /\ fa < fb
          /\ gantt[fa].start < gantt[fb].start

\* roundRobin's loop has exited on three processes listed out of arrival
\* order, two of them arriving together; some process ran in several slices
\* and the run bridged an idle gap.
FirstDispatchOrderWitness ==
  /\ RRLoopExited
  /\ Len(processes) = 3
  /\ processes # sorted
  /\ \E a, b \in 1..3 : a # b /\ processes[a].at = processes[b].at
  /\ Len(gantt) > 3
  /\ \E k \in 1..(Len(gantt) - 1) : gantt[k + 1].start > gantt[k].end

----------------------------------------------------------------------------
\* C21 - Ready-queue invariant.  At every loop head of a roundRobin run the
\* ready queue holds no index twice (so the index taken from its head, the
\* running one, is not in what stays behind), holds at most n indices, holds
\* only visited indices with remaining > 0, and holds every visited index
\* with remaining > 0.
ReadyQueueInvariant ==
  pc = "rr_loop" =>
    /\ \A m, n \in 1..Len(queue) : m # n => queue[m] # queue[n]
    /\ Len(queue) <= Len(sorted)
    /\ \A m \in 1..Len(queue) :
         /\ queue[m] \in 1..Len(sorted)
         /\ visited[queue[m]]
         /\ remaining[queue[m]] > 0
    /\ \A j \in 1..Len(sorted) :
         (visited[j] /\ remaining[j] > 0) => QueuePos(queue, j) > 0

\* A loop head with several processes queued, one process finished and one
\* not yet arrived.
ReadyQueueInvariantWitness ==
  /\ pc = "rr_loop"
  /\ Len(queue) >= 2
  /\ \E j \in 1..Len(sorted) : visited[j] /\ remaining[j] = 0
  /\ \E j \in 1..Len(sorted) : ~visited[j]

----------------------------------------------------------------------------
\* The earliest arrival time among the processes of ps picked out by keep.
EarliestArrival(ps, keep(_)) ==
  CHOOSE t \in { ps[j].at : j \in { m \in 1..Len(ps) : keep(m) } } :
    \A j \in 1..Len(ps) : keep(j) => t <= ps[j].at

\* C22 - Work conservation.  A roundRobin run on a valid list has a first
\* segment and it starts at the earliest arrival time.  Segment k + 1 starts
\* later than segment k ends only if every process that has arrived by then
\* has all its burst in segments 1..k; segment k + 1 is then the first
\* segment of a process and starts at the earliest arrival time among the
\* processes without a segment so far.  Idle time has no segment: every
\* segment is of positive length and belongs to a process of the list.
WorkConservation ==
  /\ RRLoopExited => gantt # <<>>
  /\ gantt # <<>> =>
       gantt[1].start = EarliestArrival(processes, LAMBDA j : TRUE)
  /\ \A k \in 1..Len(gantt) :
       /\ gantt[k].end > gantt[k].start
       /\ \E j \in 1..Len(processes) : gantt[k].pid = Pid(processes[j].id)
  /\ \A k \in 1..(Len(gantt) - 1) :
       gantt[k + 1].start > gantt[k].end =>
         /\ \A j \in 1..Len(processes) :
              processes[j].at <= gantt[k].end =>
                SumDur(SegsOf(SubSeq(gantt, 1, k), processes[j].id)) = processes[j].bt
         /\ FirstSeg(gantt, gantt[k + 1].pid[2]) = k + 1
         /\ gantt[k + 1].start =
              EarliestArrival(processes,
                LAMBDA j : FirstSeg(SubSeq(gantt, 1, k), processes[j].id) = 0)

\* roundRobin's loop has exited on a list whose first arrival is after time
\* 0, and the timeline has an idle gap.
WorkConservationWitness ==
  /\ RRLoopExited
  /\ gantt # <<>> /\ gantt[1].start > 0
  /\ \E k \in 1..(Len(gantt) - 1) : gantt[k + 1].start > gantt[k].end

----------------------------------------------------------------------------
\* The pairs of consecutive segments of timeline g that belong to one process.
BackToBack(g) == { k \in 1..(Len(g) - 1) : g[k].pid = g[k + 1].pid }

\* C23 - No back-to-back slices, as the specification states it: no two
\* consecutive segments of a roundRobin timeline belong to the same process,
\* and contextSwitches equals the number of segments minus 1.
NoBackToBackSlices ==
  /\ BackToBack(gantt) = {}
  /\ (rr # NoResult /\ rr.gantt # <<>>) => rr.cs = Len(rr.gantt) - 1

\* C23 - Back-to-back slices, amended: two consecutive segments belong to the
\* same process only when no other process was ready as the first of them
\* ended (every other process had finished or not yet arrived); the second
\* then starts as the first ends.  contextSwitches counts the other adjacent
\* pairs: the number of segments minus 1 minus the number of such pairs.
BackToBackOnlyWhenAlone ==
  /\ \A k \in BackToBack(gantt) :
       /\ gantt[k + 1].start = gantt[k].end
       /\ \A j \in 1..Len(processes) :
            Pid(processes[j].id) # gantt[k].pid =>
              \/ processes[j].at > gantt[k].end
              \/ SumDur(SegsOf(SubSeq(gantt, 1, k), processes[j].id)) = processes[j].bt
  /\ (rr # NoResult /\ rr.gantt # <<>>) =>
       rr.cs = Len(rr.gantt) - 1 - Cardinality(BackToBack(rr.gantt))

\* roundRobin has returned a timeline of several processes in which one
\* process has two slices in a row and another process was preempted.
BackToBackOnlyWhenAloneWitness ==
  /\ rr # NoResult
  /\ BackToBack(rr.gantt) # {}
  /\ rr.cs >= 2
  /\ \E k \in 1..(Len(rr.gantt) - 2) :
       /\ rr.gantt[k].pid # rr.gantt[k + 1].pid
       /\ \E m \in (k + 2)..Len(rr.gantt) : rr.gantt[m].pid = rr.gantt[k].pid

----------------------------------------------------------------------------
\* C24 - Response time.  Throughout a roundRobin run the response time of a
\* process is the unset -1 until its first dispatch and from then on, later
\* dispatches included, the start of its first segment less its arrival
\* time, which is >= 0; the result reports that value for every process and
\* -1 for none.
ResponseTime ==
  /\ pc = "rr_loop" =>
       \A j \in 1..Len(sorted) :
         LET f == FirstSeg(gantt, sorted[j].id)
         IN  IF f = 0 THEN firstResponse[j] = -1
             ELSE /\ firstResponse[j] = gantt[f].start - sorted[j].at
                  /\ firstResponse[j] >= 0
  /\ rr # NoResult =>
       \A k \in 1..Len(rr.resultData) :
         LET r == rr.resultData[k]
             f == FirstSeg(rr.gantt, r.id)
         IN  /\ f # 0
             /\ r.rt # -1
             /\ r.rt >= 0
             /\ r.rt = rr.gantt[f].start - r.at

\* roundRobin has returned; some process with a response time above 0 ran in
\* several slices, and another process had none.
ResponseTimeWitness ==
  /\ rr # NoResult
  /\ \E k, m \in 1..Len(rr.resultData) :
       /\ rr.resultData[k].rt > 0
       /\ Len(SegsOf(rr.gantt, rr.resultData[k].id)) >= 2
       /\ rr.resultData[m].rt = 0

----------------------------------------------------------------------------
\* C25 - Input immutability.  No step of roundRobin or fcfsScheduler changes
\* the caller's process list: it keeps its order and every process its id,
\* arrival time and burst time.
InputImmutable == [][processes' = processes]_vars

\* Both functions have returned from a list that is not in arrival order:
\* each sorted its own copy, and roundRobin's remaining array went from the
\* burst times to 0.
InputImmutableWitness ==
  /\ pc = "done"
  /\ sorted # processes /\ fsorted # processes
  /\ Len(processes) >= 2
  /\ \A j \in 1..Len(sorted) : remaining[j] = 0 /\ sorted[j].bt > 0

----------------------------------------------------------------------------
\* C26 - RR degenerates to FCFS.  For a valid list and a quantum no smaller
\* than the largest burst time, roundRobin and fcfsScheduler return the same
\* gantt, the same per-process records (completion, turnaround, waiting and
\* response time), the same contextSwitches and totalTime, and with them the
\* same averages, which with contextSwitches are all a sweep point holds.
DegeneratesToFCFS ==
  (rr # NoResult /\ fcfs # NoResult /\ quantum >= MaxBt(processes)) =>
    /\ rr.gantt = fcfs.gantt
    /\ rr.resultData = fcfs.resultData
    /\ rr.cs = fcfs.cs
    /\ rr.totalTime = fcfs.totalTime
    /\ rr.avgWt = fcfs.avgWt
    /\ rr.avgTat = fcfs.avgTat

\* Both functions have returned from a list out of arrival order, the quantum
\* above the largest burst; some process waited and the timeline has an idle
\* gap.
DegeneratesToFCFSWitness ==
  /\ rr # NoResult /\ fcfs # NoResult
  /\ quantum > MaxBt(processes)
  /\ sorted # processes
  /\ \E k \in 1..Len(rr.resultData) : rr.resultData[k].wt > 0
  /\ rr.gantt[1].start > 0

\* The points of a sweep whose quantum is at least the largest burst time
\* differ in their quantum only.
SweepTailIdentical ==
  \A k, m \in 1..Len(points) :
    (points[k].q >= MaxBt(processes) /\ points[m].q >= MaxBt(processes)) =>
      /\ points[k].awt = points[m].awt
      /\ points[k].atat = points[m].atat
      /\ points[k].cs = points[m].cs

----------------------------------------------------------------------------
\* The segments segs of one process follow one another without a break.
Contiguous(segs) ==
  \A k \in 1..(Len(segs) - 1) : segs[k + 1].start = segs[k].end

\* C27 - Response never exceeds waiting.  In the result of roundRobin every
\* process has 0 <= rt <= wt, and rt = wt exactly when its segments follow
\* one another without a break.
ResponseAtMostWaiting ==
  rr # NoResult =>
    \A k \in 1..Len(rr.resultData) :
      LET r == rr.resultData[k]
      IN  /\ 0 <= r.rt
          /\ r.rt <= r.wt
          /\ (r.rt = r.wt) <=> Contiguous(SegsOf(rr.gantt, r.id))

\* roundRobin has returned; one process waited between its slices, another
\* waited for its first slice only.
ResponseAtMostWaitingWitness ==
  /\ rr # NoResult
  /\ \E k, m \in 1..Len(rr.resultData) :
       /\ rr.resultData[k].rt < rr.resultData[k].wt
       /\ rr.resultData[m].rt = rr.resultData[m].wt
       /\ rr.resultData[m].rt > 0

----------------------------------------------------------------------------
\* The idle time between the segments of timeline g.
IdleTime(g) == SumSeq([k \in 1..(Len(g) - 1) |-> g[k + 1].start - g[k].end])

\* Result res measures its total time from time 0.
MeasuredFromZero(res) ==
  LET first == EarliestArrival(processes, LAMBDA j : TRUE)
      burst == SumBurst(processes)
  IN  /\ res.gantt # <<>>
      /\ res.totalTime = res.gantt[Len(res.gantt)].end
      /\ res.totalTime = first + burst + IdleTime(res.gantt)
      /\ res.totalBurst = burst
      /\ burst <= res.totalTime
      /\ (burst = res.totalTime) <=> (first = 0 /\ IdleTime(res.gantt) = 0)

\* C28 - Utilization is measured from time 0.  In the result of roundRobin
\* and of fcfsScheduler totalTime is the end of the last segment, which is
\* the earliest arrival time plus the burst times plus the idle time between
\* segments; the burst times sum to at most totalTime (the utilization
\* totalBurst / totalTime is at most 1), and to exactly totalTime when and
\* only when the earliest arrival is at 0 and there is no idle time.
UtilizationFromZero ==
  /\ rr # NoResult => MeasuredFromZero(rr)
  /\ fcfs # NoResult => MeasuredFromZero(fcfs)

\* Both functions have returned from a list whose first arrival is after
\* time 0, with idle time in both timelines and preemption in roundRobin's.
UtilizationFromZeroWitness ==
  /\ rr # NoResult /\ fcfs # NoResult
  /\ EarliestArrival(processes, LAMBDA j : TRUE) > 0
  /\ IdleTime(rr.gantt) > 0 /\ IdleTime(fcfs.gantt) > 0
  /\ Len(rr.gantt) > Len(processes)

----------------------------------------------------------------------------
\* The list is not empty and its ids are 1..n in list order.
ListShape(ps) == Len(ps) >= 1 /\ \A j \in 1..Len(ps) : ps[j].id = j

\* C29 - Process-list shape under editing.  After any sequence of add,
\* remove, update, randomize, reset and preset-apply from DEFAULT_PROCESSES
\* the list (which line 258 hands to roundRobin at every render) is not empty
\* and its ids are exactly 1..n in list order; remove on a list of one
\* element leaves the list as it is.
ProcessListShape ==
  /\ [](pc = "editing" => ListShape(processes))
  /\ [][\A id \in 1..LongestList :
          (Len(processes) = 1 /\ Remove(id)) => processes' = processes]_vars

\* The default list after the removal of its first three rows: one element,
\* the fourth row renumbered to id 1, on which remove is offered again.
ProcessListShapeWitness ==
  /\ pc = "editing"
  /\ processes = << Proc(1, 3, 6) >>
  /\ ENABLED Remove(1)

\* C30 - Process values under editing.  After any sequence of add, remove,
\* update (with any text), randomize, reset and preset-apply from
\* DEFAULT_PROCESSES every process of the list (which line 258 hands to
\* roundRobin at every render) has arrival time >= 0 and burst time >= 1.
ProcessValuesValid ==
  pc = "editing" =>
    \A j \in 1..Len(processes) : processes[j].at >= 0 /\ processes[j].bt >= 1

====
